---- MODULE Spec2Model ----
(***************************************************************************)
(* Quote ledger (QuoteDataService) and the derived analytics              *)
(* (getPerformanceQuotes, RSLevyService) of codescape-financial-api.      *)
(*                                                                         *)
(* The ledger is the `quotes` table: a set of rows                        *)
(*   [sid, eid, date, quote]                                               *)
(* with the unique key (date, security, exchange).  Dates are day numbers  *)
(* (days since 1970-01-01); the SQL date functions the queries use         *)
(* (DATE_SUB, WEEKDAY, YEARWEEK) are computed on the civil calendar.       *)
(* Prices are integers; a quotient (rslValue) is kept as an exact reduced  *)
(* fraction [num, den].                                                    *)
(***************************************************************************)
EXTENDS Integers, Sequences, FiniteSets, TLC

VARIABLES
    ledger,     \* the rows of the quotes table
    inflight,   \* insert statements issued by add() and not yet executed
    applied,    \* the statements the database has executed, in order
    calls,      \* number of add() calls made
    promises,   \* for every add() call: how its promise settled, and what
                \* became of the insert statement it issued
    resp        \* what the last call returned to its caller

vars == <<ledger, inflight, applied, calls, promises, resp>>

----------------------------------------------------------------------------
(* Bounds of the model. *)

\* add() calls in one behaviour
MaxCalls == 2
\* insert statements issued and not yet executed by the database
MaxInflight == 2

----------------------------------------------------------------------------
(* Master data: the securities and exchanges tables (owned externally). *)

Securities == {1, 2}
Exchanges == {1, 2}

IsinOf(s) == IF s = 1 THEN "DE0001" ELSE "US0002"
SecNameOf(s) == IF s = 1 THEN "Alpha AG" ELSE "Beta Inc"
SecTypeOf(s) == IF s = 1 THEN "stock" ELSE "etf"
ExchNameOf(e) == IF e = 1 THEN "XETRA" ELSE "NYSE"

\* securityService.getOne({ isin }): the security with that ISIN, or 0 when
\* there is none (the lookup then rejects).
SecurityGetOne(isin) ==
    IF \E s \in Securities : IsinOf(s) = isin
    THEN CHOOSE s \in Securities : IsinOf(s) = isin
    ELSE 0

\* exchangeService.getOne({ name }): likewise.
ExchangeGetOne(name) ==
    IF \E e \in Exchanges : ExchNameOf(e) = name
    THEN CHOOSE e \in Exchanges : ExchNameOf(e) = name
    ELSE 0

----------------------------------------------------------------------------
(* Calendar arithmetic on day numbers (proleptic Gregorian). *)

Min(a, b) == IF a < b THEN a ELSE b

MaxOf(S) == CHOOSE x \in S : \A y \in S : y <= x

IsLeap(y) == (y % 4 = 0 /\ y % 100 # 0) \/ y % 400 = 0

DaysInMonth(y, m) ==
    IF m = 2 THEN (IF IsLeap(y) THEN 29 ELSE 28)
    ELSE IF m \in {4, 6, 9, 11} THEN 30 ELSE 31

DaysFromCivil(y, m, d) ==
    LET yy  == IF m <= 2 THEN y - 1 ELSE y
        era == yy \div 400
        yoe == yy - era * 400
        mp  == IF m > 2 THEN m - 3 ELSE m + 9
        doy == (153 * mp + 2) \div 5 + d - 1
        doe == yoe * 365 + yoe \div 4 - yoe \div 100 + doy
    IN  era * 146097 + doe - 719468

CivilFromDays(z) ==
    LET zz  == z + 719468
        era == zz \div 146097
        doe == zz - era * 146097
        yoe == (doe - doe \div 1460 + doe \div 36524 - doe \div 146096) \div 365
        doy == doe - (365 * yoe + yoe \div 4 - yoe \div 100)
        mp  == (5 * doy + 2) \div 153
        d   == doy - (153 * mp + 2) \div 5 + 1
        m   == IF mp < 10 THEN mp + 3 ELSE mp - 9
        y   == yoe + era * 400 + (IF m <= 2 THEN 1 ELSE 0)
    IN  [y |-> y, m |-> m, d |-> d]

\* MySQL WEEKDAY(date): 0 = Monday ... 6 = Sunday (1970-01-01 was a Thursday).
WEEKDAY(date) == (date + 3) % 7

\* MySQL YEARWEEK(date, 3): ISO-8601 year and week, as year * 100 + week.
\* The ISO year of a date is the civil year of the Thursday of its week.
YEARWEEK3(date) ==
    LET thu  == date - WEEKDAY(date) + 3
        yr   == CivilFromDays(thu).y
        jan1 == DaysFromCivil(yr, 1, 1)
    IN  yr * 100 + ((thu - jan1) \div 7 + 1)

\* MySQL DATE_SUB(date, INTERVAL count unit) for the units the code builds.
\* MONTH and YEAR keep the day of the month, clamped to the target month's
\* last day.
DATE_SUB(date, count, unit) ==
    IF unit = "DAY" THEN date - count
    ELSE IF unit = "WEEK" THEN date - 7 * count
    ELSE LET c      == CivilFromDays(date)
             months == IF unit = "MONTH" THEN count ELSE 12 * count
             total  == c.y * 12 + (c.m - 1) - months
             y2     == total \div 12
             m2     == (total % 12) + 1
             d2     == Min(c.d, DaysInMonth(y2, m2))
         IN  DaysFromCivil(y2, m2, d2)

----------------------------------------------------------------------------
(* The quotes table and QuoteDataService.add *)

PairsOf(L) == {<<q.sid, q.eid>> : q \in L}

QuotesOf(L, s, e) == {q \in L : q.sid = s /\ q.eid = e}

DatesOf(L, s, e) == {q.date : q \in QuotesOf(L, s, e)}

\* The price stored for (s, e, d); the key is unique, so there is one.
PriceAt(L, s, e, d) == (CHOOSE q \in L : q.sid = s /\ q.eid = e /\ q.date = d).quote

\* Mutant of UpsertRow: INSERT IGNORE, a row with the same key is kept as is.
UpsertRowKeepExisting(L, s, e, item) ==
    IF \E q \in L : q.sid = s /\ q.eid = e /\ q.date = item.date
    THEN L
    ELSE L \cup {[sid |-> s, eid |-> e, date |-> item.date, quote |-> item.quote]}

\* One row of INSERT ... ON DUPLICATE KEY UPDATE quote = VALUES(quote):
\* a row with the same (date, security, exchange) has its quote overwritten,
\* otherwise the row is inserted.
UpsertRow(L, s, e, item) ==
    IF \E q \in L : q.sid = s /\ q.eid = e /\ q.date = item.date
    THEN {IF q.sid = s /\ q.eid = e /\ q.date = item.date
          THEN [q EXCEPT !.quote = item.quote] ELSE q : q \in L}
    ELSE L \cup {[sid |-> s, eid |-> e, date |-> item.date, quote |-> item.quote]}

\* e, with v evaluated first.  TLC evaluates the arguments of an operator on
\* demand; a long chain of pending updates is evaluated from its end and
\* exhausts the stack.
After(v, e) == IF v = v THEN e ELSE e

\* The multi-row statement: the rows of .values(itemList) are applied in
\* list order (the list is split in two only to keep the evaluation shallow:
\* the first half is applied before the second).
RECURSIVE InsertOrUpdate(_, _, _, _)
InsertOrUpdate(L, s, e, items) ==
    IF items = << >> THEN L
    ELSE IF Len(items) = 1 THEN UpsertRow(L, s, e, items[1])
    ELSE LET half  == Len(items) \div 2
             first == InsertOrUpdate(L, s, e, SubSeq(items, 1, half))
         IN  After(first,
                   InsertOrUpdate(first, s, e, SubSeq(items, half + 1, Len(items))))

\* What the last call returned to its caller: the operation, the add call's
\* number, the query's interval or the arguments of get (with the clock
\* reading new Date() gave), resolved/rejected, the error of a
\* rejection, whether a select statement was sent to the database, and the
\* records.
NoInterval == [unit |-> "", count |-> 0]

\* An optional string argument (startDate?: string) is << >> when it is
\* absent and <<str>> when it is given.
NoGetArgs ==
    [isin |-> "", exchangeID |-> 0, startDate |-> << >>, endDate |-> << >>,
     now |-> [nan |-> TRUE, day |-> 0, ms |-> 0]]

NoResp ==
    [op |-> "none", call |-> 0, interval |-> NoInterval, get |-> NoGetArgs,
     status |-> "", error |-> "", queried |-> FALSE,
     perf |-> << >>, levy |-> {}, quotes |-> {}]

\* add(data) with both lookups succeeding: the item list is built and the
\* insert statement is issued; .execute() is neither awaited nor returned,
\* so the promise of add resolves with the statement still in flight.
Add(data) ==
    /\ calls < MaxCalls
    /\ Cardinality(inflight) < MaxInflight
    /\ SecurityGetOne(data.isin) # 0
    /\ ExchangeGetOne(data.exchange) # 0
    /\ inflight' = inflight \cup
           {[id    |-> calls + 1,
             sid   |-> SecurityGetOne(data.isin),
             eid   |-> ExchangeGetOne(data.exchange),
             items |-> data.quotes]}
    /\ calls' = calls + 1
    /\ promises' = Append(promises, [promise |-> "resolved", statement |-> "pending"])
    /\ resp' = [NoResp EXCEPT !.op = "add", !.call = calls + 1, !.status = "resolved"]
    /\ UNCHANGED <<ledger, applied>>

\* add(data) with an unknown ISIN or exchange name: the lookup rejects and
\* nothing is issued.
AddNotFound(data) ==
    /\ calls < MaxCalls
    /\ SecurityGetOne(data.isin) = 0 \/ ExchangeGetOne(data.exchange) = 0
    /\ calls' = calls + 1
    /\ promises' = Append(promises, [promise |-> "rejected", statement |-> "none"])
    /\ resp' = [NoResp EXCEPT !.op = "add", !.call = calls + 1, !.status = "rejected"]
    /\ UNCHANGED <<ledger, inflight, applied>>

\* Mutant of ExecuteInsert: the table has no unique key on (date, security,
\* exchange), every item of the statement is inserted as a new row.
ExecuteInsertNoUniqueKey ==
    \E st \in inflight :
        /\ ledger' = ledger \cup
              {[sid |-> st.sid, eid |-> st.eid,
                date |-> st.items[i].date, quote |-> st.items[i].quote] :
                  i \in 1..Len(st.items)}
        /\ inflight' = inflight \ {st}
        /\ applied' = Append(applied, st)
        /\ promises' = [promises EXCEPT ![st.id].statement = "done"]
        /\ resp' = NoResp
        /\ UNCHANGED calls

\* The database executes one issued insert statement.  The statements of
\* concurrent add() calls are executed one at a time, in either order: each
\* is one autocommit transaction that holds its row locks to its end.
ExecuteInsert ==
    \E st \in inflight :
        /\ ledger' = InsertOrUpdate(ledger, st.sid, st.eid, st.items)
        /\ inflight' = inflight \ {st}
        /\ applied' = Append(applied, st)
        /\ promises' = [promises EXCEPT ![st.id].statement = "done"]
        /\ resp' = NoResp
        /\ UNCHANGED calls

\* The database rejects one issued insert statement (lost connection, lock
\* wait timeout, deadlock with a concurrent statement): the statement is
\* rolled back as a whole.  The promise of .execute() rejects; nothing
\* handles it, and the promise of add() has resolved already.
ExecuteInsertFails ==
    \E st \in inflight :
        /\ inflight' = inflight \ {st}
        /\ promises' = [promises EXCEPT ![st.id].statement = "failed"]
        /\ resp' = NoResp
        /\ UNCHANGED <<ledger, applied, calls>>

----------------------------------------------------------------------------
(* QuoteDataService.get *)

\* A time stamp (the number Date.parse returns, the value of a Date) is kept
\* as the day number and the millisecond within the day (UTC); nan is the
\* time stamp NaN.
NaN == [nan |-> TRUE, day |-> 0, ms |-> 0]

TimeStamp(day, ms) == [nan |-> FALSE, day |-> day, ms |-> ms]

\* Date.parse(str) for the strings the model uses: a date-only ISO string is
\* midnight UTC of that day, a date-time ISO string with Z is that instant,
\* any other text (and the empty string) is NaN.
DateParse(str) ==
    CASE str = "2023-01-31" -> TimeStamp(DaysFromCivil(2023, 1, 31), 0)
      [] str = "2023-02-28" -> TimeStamp(DaysFromCivil(2023, 2, 28), 0)
      [] str = "2023-03-31" -> TimeStamp(DaysFromCivil(2023, 3, 31), 0)
      [] str = "2023-02-27T23:59:59.999Z"
             -> TimeStamp(DaysFromCivil(2023, 2, 27), 86399999)
      [] OTHER -> NaN

isNaN(t) == t.nan

\* if (startDate), if (endDate): an absent argument and the empty string are
\* falsy.
Truthy(arg) == arg # << >> /\ arg[1] # ""

\* t1 <= t2 on time stamps.
TimeLeq(t1, t2) == t1.day < t2.day \/ (t1.day = t2.day /\ t1.ms <= t2.ms)

\* Mutant of Between: the upper end is excluded.
BetweenExclusive(date, start, end) ==
    /\ TimeLeq(start, TimeStamp(date, 0))
    /\ ~TimeLeq(end, TimeStamp(date, 0))

\* q.date BETWEEN :start AND :end, both ends included; a quote's date is the
\* midnight of its day.
Between(date, start, end) ==
    /\ TimeLeq(start, TimeStamp(date, 0))
    /\ TimeLeq(TimeStamp(date, 0), end)

\* createFilteredRowsQuery(isin, exchangeID): the quotes joined with their
\* security and exchange WHERE s.isin = :isin AND e.id = :exid
createFilteredRowsQuery(L, isin, exchangeID) ==
    {q \in L : /\ q.sid \in Securities /\ q.eid \in Exchanges
                /\ IsinOf(q.sid) = isin
                /\ q.eid = exchangeID}

\* The rows get() selects; now is the value of new Date().
GetRows(L, isin, exchangeID, startDate, endDate, now) ==
    LET query == createFilteredRowsQuery(L, isin, exchangeID)
    IN  IF Truthy(startDate) /\ ~isNaN(DateParse(startDate[1]))
        THEN LET end == IF Truthy(endDate) /\ ~isNaN(DateParse(endDate[1]))
                        THEN DateParse(endDate[1])
                        ELSE now
             IN  {q \in query : Between(q.date, DateParse(startDate[1]), end)}
        ELSE query

\* get(isin, exchangeID, startDate, endDate)
Get(isin, exchangeID, startDate, endDate, now) ==
    /\ resp' = [NoResp EXCEPT
                   !.op = "get",
                   !.get = [isin |-> isin, exchangeID |-> exchangeID,
                            startDate |-> startDate, endDate |-> endDate,
                            now |-> now],
                   !.status = "resolved", !.queried = TRUE,
                   !.quotes = GetRows(ledger, isin, exchangeID, startDate, endDate, now)]
    /\ UNCHANGED <<ledger, inflight, applied, calls, promises>>

----------------------------------------------------------------------------
(* QuoteDataService.getPerformanceQuotes and its three nested subqueries *)

\* SELECT s.id, s.isin, s.name, s.type, e.name, MAX(q.date)
\* FROM quotes q LEFT JOIN securities s LEFT JOIN exchanges e
\* GROUP BY s.isin, e.name
subQueryLatestDates(L) ==
    {[sid        |-> p[1],
      isin       |-> IsinOf(p[1]),
      sname      |-> SecNameOf(p[1]),
      itype      |-> SecTypeOf(p[1]),
      ename      |-> ExchNameOf(p[2]),
      latestDate |-> MaxOf(DatesOf(L, p[1], p[2]))] : p \in PairsOf(L)}

\* FROM quotes q LEFT JOIN ldates ON q.securityId = ldates.sid
\* WHERE q.date = ldates.latestDate: the join is on the security alone, so
\* q ranges over the quotes of every exchange of that security.
subQueryLatestSharePrices(L) ==
    {[sid         |-> j[2].sid,
      isin        |-> j[2].isin,
      sname       |-> j[2].sname,
      itype       |-> j[2].itype,
      ename       |-> j[2].ename,
      latestDate  |-> j[2].latestDate,
      latestPrice |-> j[1].quote] :
        j \in {jj \in L \X subQueryLatestDates(L) :
                  jj[1].sid = jj[2].sid /\ jj[1].date = jj[2].latestDate}}

\* const unit = { day: "DAY", month: "MONTH", year: "YEAR" }; unit[interval.unit]
UnitSql(unit) ==
    IF unit = "day" THEN "DAY"
    ELSE IF unit = "month" THEN "MONTH"
    ELSE IF unit = "year" THEN "YEAR"
    ELSE "undefined"

\* The rows of quotes q LEFT JOIN lprices ON q.securityId = lprices.sid
\* WHERE q.date <= DATE_SUB(lprices.latestDate, INTERVAL count unit)
ReferenceJoin(L, interval) ==
    {j \in L \X subQueryLatestSharePrices(L) :
        /\ j[1].sid = j[2].sid
        /\ j[1].date <= DATE_SUB(j[2].latestDate, interval.count, UnitSql(interval.unit))}

\* GROUP BY lprices.isin, lprices.ename with MAX(q.date) AS baseDate.  The
\* other selected columns are not aggregated: the database takes them from a
\* row of the group.  sid, sname, itype and latestDate are the same in every
\* row of a group; latestPrice need not be, so every row of the group gives
\* one candidate.
ReferenceCandidates(L, interval) ==
    {[sid         |-> j[2].sid,
      isin        |-> j[2].isin,
      sname       |-> j[2].sname,
      itype       |-> j[2].itype,
      ename       |-> j[2].ename,
      latestDate  |-> j[2].latestDate,
      latestPrice |-> j[2].latestPrice,
      baseDate    |-> MaxOf({k[1].date : k \in
                          {kk \in ReferenceJoin(L, interval) :
                              kk[2].isin = j[2].isin /\ kk[2].ename = j[2].ename}})] :
        j \in ReferenceJoin(L, interval)}

\* The possible results of the subquery: one row for each group.
subQueryReferenceDates(L, interval) ==
    {B \in SUBSET ReferenceCandidates(L, interval) :
        /\ \A c \in ReferenceCandidates(L, interval) :
              \E b \in B : b.isin = c.isin /\ b.ename = c.ename
        /\ \A b1, b2 \in B :
              (b1.isin = b2.isin /\ b1.ename = b2.ename) => b1 = b2}

\* FROM quotes q LEFT JOIN bdates ON q.securityId = bdates.sid
\* WHERE q.date = bdates.baseDate, again joined on the security alone.
PerformanceJoin(L, bdates) ==
    {j \in L \X bdates : j[1].sid = j[2].sid /\ j[1].date = j[2].baseDate}

\* data.map(x => ({ securityISIN: x.isin, ... basePrice: Number(x.basePrice) }))
PerformanceQuotesDTO(j) ==
    [securityISIN   |-> j[2].isin,
     securityName   |-> j[2].sname,
     instrumentType |-> j[2].itype,
     exchangeName   |-> j[2].ename,
     latestDate     |-> j[2].latestDate,
     latestPrice    |-> j[2].latestPrice,
     baseDate       |-> j[2].baseDate,
     basePrice      |-> j[1].quote]

\* getRawMany() returns a list; its records as a bag (record -> number of
\* rows mapped to it).
PerformanceRows(L, bdates) ==
    LET joined == PerformanceJoin(L, bdates)
        dtos   == {PerformanceQuotesDTO(j) : j \in joined}
    IN  [d \in dtos |-> Cardinality({j \in joined : PerformanceQuotesDTO(j) = d})]

\* getPerformanceQuotes(interval) with count >= 1.
GetPerformanceQuotes(interval) ==
    /\ ~(interval.count < 1)
    /\ UnitSql(interval.unit) # "undefined"
    /\ \E bdates \in subQueryReferenceDates(ledger, interval) :
          resp' = [NoResp EXCEPT !.op = "perf", !.interval = interval,
                                 !.status = "resolved", !.queried = TRUE,
                                 !.perf = PerformanceRows(ledger, bdates)]
    /\ UNCHANGED <<ledger, inflight, applied, calls, promises>>

\* getPerformanceQuotes(interval) with count < 1: subQueryReferenceDates
\* throws RangeError while the query is being built.
GetPerformanceQuotesRangeError(interval) ==
    /\ interval.count < 1
    /\ resp' = [NoResp EXCEPT !.op = "perf", !.interval = interval,
                              !.status = "rejected", !.error = "RangeError"]
    /\ UNCHANGED <<ledger, inflight, applied, calls, promises>>

\* getPerformanceQuotes(interval) with count >= 1 and a unit that is not a
\* key of the unit map: unit[interval.unit] is undefined, the statement is
\* built with "INTERVAL <count> undefined" and sent to the database, which
\* rejects it as a syntax error; getRawMany() rejects with QueryFailedError.
GetPerformanceQuotesQueryFailed(interval) ==
    /\ ~(interval.count < 1)
    /\ UnitSql(interval.unit) = "undefined"
    /\ resp' = [NoResp EXCEPT !.op = "perf", !.interval = interval,
                              !.status = "rejected", !.queried = TRUE,
                              !.error = "QueryFailedError"]
    /\ UNCHANGED <<ledger, inflight, applied, calls, promises>>

----------------------------------------------------------------------------
(* Specification of the ledger with small batches and performance queries *)

\* 2023-01-31, 2023-02-28, 2023-03-31
PerfDates == {DaysFromCivil(2023, 1, 31), DaysFromCivil(2023, 2, 28),
              DaysFromCivil(2023, 3, 31)}
PerfPrices == {10, 20}
PerfItems == [date : PerfDates, quote : PerfPrices]

\* One-item batches for every pair; two-item batches for DE0001@XETRA.
PerfPayloads ==
    {[isin |-> i, exchange |-> x, quotes |-> <<it>>] :
        i \in {"DE0001"}, x \in {"XETRA", "NYSE"}, it \in PerfItems}
    \cup {[isin |-> "US0002", exchange |-> "XETRA", quotes |-> <<it>>] : it \in PerfItems}
    \cup {[isin |-> "DE0001", exchange |-> "XETRA", quotes |-> <<a, b>>] :
            a \in PerfItems, b \in PerfItems}

UnknownPayloads ==
    {[isin |-> "XX0000", exchange |-> "XETRA",
      quotes |-> <<[date |-> DaysFromCivil(2023, 3, 31), quote |-> 10]>>]}

PerfIntervals ==
    {[unit |-> "day", count |-> 1], [unit |-> "month", count |-> 1],
     [unit |-> "year", count |-> 1], [unit |-> "day", count |-> 0],
     [unit |-> "week", count |-> 1], [unit |-> "week", count |-> 0]}

Init ==
    /\ ledger = {}
    /\ inflight = {}
    /\ applied = << >>
    /\ calls = 0
    /\ promises = << >>
    /\ resp = NoResp

Next ==
    \/ \E data \in PerfPayloads : Add(data)
    \/ \E data \in UnknownPayloads : AddNotFound(data)
    \/ ExecuteInsert
    \/ ExecuteInsertFails
    \/ \E interval \in PerfIntervals : GetPerformanceQuotes(interval)
    \/ \E interval \in PerfIntervals : GetPerformanceQuotesRangeError(interval)
    \/ \E interval \in PerfIntervals : GetPerformanceQuotesQueryFailed(interval)

Spec == Init /\ [][Next]_vars

----------------------------------------------------------------------------
(* Helpers of the properties *)

RECURSIVE SumOver(_, _)
SumOver(f, S) ==
    IF S = {} THEN 0
    ELSE LET x == CHOOSE y \in S : TRUE IN f[x] + SumOver(f, S \ {x})

\* Number of records of a performance response for the pair (s, e).
PerfRecordCount(bag, s, e) ==
    SumOver(bag, {r \in DOMAIN bag :
                    r.securityISIN = IsinOf(s) /\ r.exchangeName = ExchNameOf(e)})

\* The cutoff of a pair: its latest quote date minus the interval.
PairCutoff(L, s, e, interval) ==
    DATE_SUB(MaxOf(DatesOf(L, s, e)), interval.count, UnitSql(interval.unit))

PerfAnswered == resp.op = "perf" /\ resp.status = "resolved"

\* A security of the ledger is quoted on two exchanges.
TwoExchanges(L) == \E q1, q2 \in L : q1.sid = q2.sid /\ q1.eid # q2.eid

----------------------------------------------------------------------------
(* Claims on getPerformanceQuotes *)

\* C1: every record of getPerformanceQuotes for the pair (s, e) has
\* latestDate = the maximum quote date of (s, e), latestPrice = the price of
\* (s, e) on it, baseDate = the latest quote date of (s, e) that is <=
\* latestDate minus the interval, and basePrice = the price of (s, e) on
\* baseDate; securities quoted on two exchanges included.
C1_RecordsPairedWithinPair ==
    PerfAnswered =>
        \A r \in DOMAIN resp.perf :
            LET s     == SecurityGetOne(r.securityISIN)
                e     == ExchangeGetOne(r.exchangeName)
                dates == DatesOf(ledger, s, e)
                old   == {d \in dates : d <= PairCutoff(ledger, s, e, resp.interval)}
            IN  /\ dates # {}
                /\ r.latestDate = MaxOf(dates)
                /\ r.latestPrice = PriceAt(ledger, s, e, r.latestDate)
                /\ old # {}
                /\ r.baseDate = MaxOf(old)
                /\ r.basePrice = PriceAt(ledger, s, e, r.baseDate)

\* C2: getPerformanceQuotes returns exactly one record for each pair that has
\* a quote dated at or before (its latest date minus the interval) and no
\* record for a pair that has none.
C2_OneRecordPerPairWithHistory ==
    PerfAnswered =>
        \A p \in PairsOf(ledger) :
            PerfRecordCount(resp.perf, p[1], p[2]) =
                IF \E d \in DatesOf(ledger, p[1], p[2]) :
                       d <= PairCutoff(ledger, p[1], p[2], resp.interval)
                THEN 1 ELSE 0

----------------------------------------------------------------------------
(* Claims on add *)

\* The last item of a batch with the given date.
LastItemWithDate(items, d) ==
    items[MaxOf({i \in 1..Len(items) : items[i].date = d})]

BatchDates(items) == {items[i].date : i \in 1..Len(items)}

\* The ledger after the database has executed a sequence of statements.
RECURSIVE Replay(_)
Replay(log) ==
    IF log = << >> THEN {}
    ELSE LET st == log[Len(log)]
         IN  InsertOrUpdate(Replay(SubSeq(log, 1, Len(log) - 1)), st.sid, st.eid, st.items)

SamePayload(a, b) == a.sid = b.sid /\ a.eid = b.eid /\ a.items = b.items

\* C10 for one payload on the ledger L.
IdempotentLastWins(L, s, e, items) ==
    LET once  == InsertOrUpdate(L, s, e, items)
        twice == InsertOrUpdate(once, s, e, items)
    IN  /\ twice = once
        /\ \A d \in BatchDates(items) :
              /\ Cardinality({q \in once : q.sid = s /\ q.eid = e /\ q.date = d}) = 1
              /\ PriceAt(once, s, e, d) = LastItemWithDate(items, d).quote
        /\ \A q \in L \cup once :
              ~(q.sid = s /\ q.eid = e /\ q.date \in BatchDates(items))
                  => (q \in L /\ q \in once)

\* C10: from every ledger state, applying the same payload twice leaves the
\* rows that applying it once leaves; a date that occurs several times in the
\* batch ends with the price of the last item with that date; rows whose key
\* is not in the batch are unchanged.  The ledger is what the executed
\* statements produce, so the same holds of two executions in a row.
C10_AddIdempotentLastWins ==
    /\ \A data \in PerfPayloads :
          IdempotentLastWins(ledger, SecurityGetOne(data.isin),
                             ExchangeGetOne(data.exchange), data.quotes)
    /\ ledger = Replay(applied)
    /\ (Len(applied) >= 2
          /\ SamePayload(applied[Len(applied)], applied[Len(applied) - 1]))
        => ledger = Replay(SubSeq(applied, 1, Len(applied) - 1))

\* The same two-item payload, its two items on one date with different
\* prices, has been executed twice.
C10_Witness ==
    /\ Len(applied) = 2
    /\ SamePayload(applied[1], applied[2])
    /\ Len(applied[1].items) = 2
    /\ applied[1].items[1].date = applied[1].items[2].date
    /\ applied[1].items[1].quote # applied[1].items[2].quote

----------------------------------------------------------------------------
(* Claims on concurrent add calls *)

\* The statement st writes the triple (s, e, d).
Writes(st, s, e, d) == st.sid = s /\ st.eid = e /\ d \in BatchDates(st.items)

\* The statement st supplies the price p for the triple (s, e, d).
Supplies(st, s, e, d, p) ==
    /\ st.sid = s /\ st.eid = e
    /\ \E i \in 1..Len(st.items) : st.items[i].date = d /\ st.items[i].quote = p

\* C11: in every reachable ledger state, whatever the order in which the
\* statements of the add calls were issued and executed, there is at most one
\* row for a (security, exchange, date) triple, and its price is a price that
\* one of the executed statements supplied for that triple.
C11_OneRowPerTripleFromAWriter ==
    /\ \A q1, q2 \in ledger :
          (q1.sid = q2.sid /\ q1.eid = q2.eid /\ q1.date = q2.date) => q1 = q2
    /\ \A q \in ledger :
          \E i \in 1..Len(applied) : Supplies(applied[i], q.sid, q.eid, q.date, q.quote)

\* Two add calls were in flight together (the statement of the second call
\* was executed before that of the first), both wrote one triple with
\* different prices, and the row holds the first call's price.
C11_Witness ==
    /\ Len(applied) = 2
    /\ applied[1].id = 2 /\ applied[2].id = 1
    /\ \E q \in ledger :
          /\ Writes(applied[1], q.sid, q.eid, q.date)
          /\ Writes(applied[2], q.sid, q.eid, q.date)
          /\ ~Supplies(applied[1], q.sid, q.eid, q.date, q.quote)
          /\ Supplies(applied[2], q.sid, q.eid, q.date, q.quote)

----------------------------------------------------------------------------
(* Specification of the ledger with get calls *)

\* For three pairs a batch with the three dates, and for DE0001@XETRA a
\* batch that sets the price of 2023-02-28.
GetPayloads ==
    LET pairs == {<<"DE0001", "XETRA">>, <<"DE0001", "NYSE">>, <<"US0002", "XETRA">>}
    IN  {[isin |-> p[1], exchange |-> p[2],
          quotes |-> <<[date |-> DaysFromCivil(2023, 1, 31), quote |-> 10],
                       [date |-> DaysFromCivil(2023, 2, 28), quote |-> 10],
                       [date |-> DaysFromCivil(2023, 3, 31), quote |-> 10]>>] :
            p \in pairs}
        \cup {[isin |-> "DE0001", exchange |-> "XETRA",
                quotes |-> <<[date |-> DaysFromCivil(2023, 2, 28), quote |-> 20]>>]}

GetIsins == {"DE0001", "US0002"}
GetExchangeIDs == Exchanges
GetStartDates == {<< >>, <<"">>, <<"yesterday">>, <<"2023-02-28">>, <<"2023-03-31">>}
GetEndDates == {<< >>, <<"tomorrow">>, <<"2023-01-31">>, <<"2023-02-28">>,
                <<"2023-02-27T23:59:59.999Z">>}
\* The clock: noon of 2023-02-28, noon of 2023-04-15.
GetClock == {TimeStamp(DaysFromCivil(2023, 2, 28), 43200000),
             TimeStamp(DaysFromCivil(2023, 4, 15), 43200000)}

NextGet ==
    \/ \E data \in GetPayloads : Add(data)
    \/ \E data \in UnknownPayloads : AddNotFound(data)
    \/ ExecuteInsert
    \/ ExecuteInsertFails
    \/ \E isin \in GetIsins, exchangeID \in GetExchangeIDs,
          startDate \in GetStartDates, endDate \in GetEndDates, now \in GetClock :
            Get(isin, exchangeID, startDate, endDate, now)

SpecGet == Init /\ [][NextGet]_vars

----------------------------------------------------------------------------
(* Claims on get *)

\* The argument is given and is a date string.
Parses(arg) == arg # << >> /\ ~isNaN(DateParse(arg[1]))

\* The quotes of the pair (isin, exchangeID) in the ledger.
PairQuotes(L, isin, exchangeID) ==
    {q \in L : IsinOf(q.sid) = isin /\ q.eid = exchangeID}

\* Midnight of the day is not before, not after, the instant t.
NotBefore(date, t) == t.day < date \/ (t.day = date /\ t.ms = 0)

NotAfter(date, t) == date <= t.day

\* C13: get(isin, exchangeID, startDate, endDate) resolves with quotes of
\* that pair only; when startDate parses, with exactly the pair's quotes
\* dated from the start to the end, both included, the end being the parsed
\* endDate, or the current time when endDate is absent or does not parse;
\* when startDate is absent or does not parse, with all the pair's quotes,
\* whatever endDate is.
C13_GetRangeFilter ==
    resp.op = "get" =>
        LET a     == resp.get
            mine  == PairQuotes(ledger, a.isin, a.exchangeID)
            start == DateParse(a.startDate[1])
            end   == IF Parses(a.endDate) THEN DateParse(a.endDate[1]) ELSE a.now
        IN  /\ resp.status = "resolved"
            /\ resp.quotes \subseteq mine
            /\ Parses(a.startDate) =>
                  resp.quotes = {q \in mine : NotBefore(q.date, start) /\ NotAfter(q.date, end)}
            /\ ~Parses(a.startDate) => resp.quotes = mine

\* A get with a start date and an end date that does not parse, on a ledger
\* with quotes of another exchange of the security, that returned some of the
\* pair's quotes and left out one dated after the current time.
C13_Witness ==
    /\ resp.op = "get"
    /\ Parses(resp.get.startDate)
    /\ resp.get.endDate = <<"tomorrow">>
    /\ resp.quotes # {}
    /\ \E q \in PairQuotes(ledger, resp.get.isin, resp.get.exchangeID) :
          q \notin resp.quotes /\ q.date > resp.get.now.day
    /\ \E q \in ledger : IsinOf(q.sid) = resp.get.isin /\ q.eid # resp.get.exchangeID

----------------------------------------------------------------------------
(* Claims on the promise of add *)

\* The statements issued so far and not failed.
IssuedStatements == inflight \cup {applied[i] : i \in 1..Len(applied)}

\* C14: once the promise of an add call has resolved, the statement of the
\* call has been executed (a get of the batch's pair without a date filter
\* returns a quote for every date of the batch), and the promise of a call
\* whose statement failed is rejected.
C14_ResolvedMeansApplied ==
    /\ \A i \in 1..Len(promises) :
          /\ promises[i].promise = "resolved" => promises[i].statement = "done"
          /\ promises[i].statement = "failed" => promises[i].promise = "rejected"
    /\ (resp.op = "get" /\ ~Parses(resp.get.startDate)) =>
          \A st \in IssuedStatements :
              (/\ promises[st.id].promise = "resolved"
               /\ IsinOf(st.sid) = resp.get.isin
               /\ st.eid = resp.get.exchangeID)
                  => \A d \in BatchDates(st.items) : \E q \in resp.quotes : q.date = d

----------------------------------------------------------------------------
(* Claims on malformed intervals *)

Malformed(interval) ==
    interval.count < 1 \/ interval.unit \notin {"day", "month", "year"}

\* C12: getPerformanceQuotes called with a malformed interval (count < 1, or
\* a unit other than day, month, year) is rejected with the invalid-argument
\* error (RangeError), no statement having been sent to the database, and
\* returns no records.
C12_MalformedIntervalRejectedBeforeQuery ==
    (resp.op = "perf" /\ Malformed(resp.interval))
        => /\ resp.status = "rejected"
           /\ resp.error = "RangeError"
           /\ ~resp.queried
           /\ resp.perf = << >>

----------------------------------------------------------------------------
(* RSLevyService: the weekly algorithm *)

\* items.length < 27: fewer weekly closes and the pair is skipped
MinWeeklyCloses == 27
\* .slice(0, 27): the weekly closes that enter the value
UsedWeeklyCloses == 27
\* INTERVAL 28 WEEK: the length of the candidate window
WindowWeeks == 28
\* (3 + WEEKDAY(max_date)) % 7
WeekCloseShift == 3

RECURSIVE Gcd(_, _)
Gcd(a, b) == IF b = 0 THEN a ELSE Gcd(b, a % b)

\* The quotient n / d of two non-negative numbers as a reduced fraction; a
\* zero divisor gives den = 0 (Infinity or NaN in the code).
Quotient(n, d) ==
    IF d = 0 THEN [num |-> IF n = 0 THEN 0 ELSE 1, den |-> 0]
    ELSE [num |-> n \div Gcd(n, d), den |-> d \div Gcd(n, d)]

\* QuoteDataService.getMinMaxDates: the first and last quote date of every
\* pair.
getMinMaxDates(L) ==
    {[sid      |-> p[1],
      eid      |-> p[2],
      min_date |-> CHOOSE d \in DatesOf(L, p[1], p[2]) :
                       \A d2 \in DatesOf(L, p[1], p[2]) : d <= d2,
      max_date |-> MaxOf(DatesOf(L, p[1], p[2]))] : p \in PairsOf(L)}

\* Mutant of WeekCloseLimit: the shift is 4, which ends the week on Thursday.
WeekCloseLimitThursday(max_date) ==
    DATE_SUB(max_date, (4 + WEEKDAY(max_date)) % 7, "DAY")

\* DATE_SUB(ndates.max_date, INTERVAL ((3 + WEEKDAY(ndates.max_date)) % 7) DAY)
WeekCloseLimit(max_date) ==
    DATE_SUB(max_date, (WeekCloseShift + WEEKDAY(max_date)) % 7, "DAY")

\* SELECT sid, eid, MAX(q.date) AS close_date ... WHERE q.date <= limit
\* GROUP BY sid, eid
getLatestWeekCloseDate(L) ==
    {[sid        |-> nd.sid,
      eid        |-> nd.eid,
      close_date |-> MaxOf({d \in DatesOf(L, nd.sid, nd.eid) :
                              d <= WeekCloseLimit(nd.max_date)})] :
        nd \in {n \in getMinMaxDates(L) :
                  \E d \in DatesOf(L, n.sid, n.eid) : d <= WeekCloseLimit(n.max_date)}}

\* SELECT sid, eid, YEARWEEK(q.date, 3) AS year_week ...
\* WHERE q.date <= close_date AND q.date > DATE_SUB(close_date, INTERVAL 28 WEEK)
\* GROUP BY sid, eid, YEARWEEK(q.date, 3)
getLast28Weeks(L) ==
    {[sid |-> j[2].sid, eid |-> j[2].eid, year_week |-> YEARWEEK3(j[1].date)] :
        j \in {jj \in L \X getLatestWeekCloseDate(L) :
                 /\ jj[1].sid = jj[2].sid /\ jj[1].eid = jj[2].eid
                 /\ jj[1].date <= jj[2].close_date
                 /\ jj[1].date > DATE_SUB(jj[2].close_date, WindowWeeks, "WEEK")}}

\* SELECT sid, eid, MAX(q.date) AS last_date_of_week ...
\* WHERE YEARWEEK(q.date, 3) = weekly.year_week
\* GROUP BY sid, eid, weekly.year_week: q ranges over all quotes of the pair
\* in that ISO week.
getWeeklyCloseDates(L) ==
    LET weeks == {[sid |-> q.sid, eid |-> q.eid, date |-> q.date,
                   year_week |-> YEARWEEK3(q.date)] : q \in L}
    IN  {[sid |-> w.sid,
          eid |-> w.eid,
          last_date_of_week |->
              MaxOf({x.date : x \in {y \in weeks :
                        /\ y.sid = w.sid /\ y.eid = w.eid
                        /\ y.year_week = w.year_week}})] :
            w \in getLast28Weeks(L)}

\* The rows of the outer query, mapped to RSLevyWeeklyData.
getRawRSLevyData(L) ==
    {[securityISIN    |-> IsinOf(j[2].sid),
      securityName    |-> SecNameOf(j[2].sid),
      instrumentType  |-> SecTypeOf(j[2].sid),
      exchangeName    |-> ExchNameOf(j[2].eid),
      lastDayOfWeek   |-> j[2].last_date_of_week,
      lastPriceOfWeek |-> j[1].quote] :
        j \in {jj \in L \X getWeeklyCloseDates(L) :
                 /\ jj[1].sid = jj[2].sid /\ jj[1].eid = jj[2].eid
                 /\ jj[1].date = jj[2].last_date_of_week}}

\* items.sort((a, b) => b.lastDayOfWeek - a.lastDayOfWeek)
RECURSIVE SortByDayDesc(_)
SortByDayDesc(items) ==
    IF items = {} THEN << >>
    ELSE LET top == CHOOSE x \in items : \A y \in items : y.lastDayOfWeek <= x.lastDayOfWeek
         IN  <<top>> \o SortByDayDesc(items \ {top})

\* Mutant of Slice: the slice is left out, every close enters the value.
SliceAll(seq, n) == seq

\* .slice(0, 27)
Slice(seq, n) == SubSeq(seq, 1, Min(n, Len(seq)))

\* sortedItems.reduce((sum, elem) => sum + elem.lastPriceOfWeek, 0.0)
RECURSIVE SumPrices(_)
SumPrices(seq) ==
    IF seq = << >> THEN 0 ELSE Head(seq).lastPriceOfWeek + SumPrices(Tail(seq))

\* Mutant of WeeklyRecord: the newest close is left out of the sum.
WeeklyRecordOlderSum(items) ==
    LET sortedItems == Slice(SortByDayDesc(items), UsedWeeklyCloses)
        newest      == sortedItems[1]
        older       == Tail(sortedItems)
    IN  [securityISIN      |-> newest.securityISIN,
         securityName      |-> newest.securityName,
         instrumentType    |-> newest.instrumentType,
         exchangeName      |-> newest.exchangeName,
         newestWeeklyClose |-> newest.lastDayOfWeek,
         rslValue          |-> Quotient(newest.lastPriceOfWeek * Len(sortedItems),
                                        SumPrices(older))]

\* The record pushed for one partition of the query result.
WeeklyRecord(items) ==
    LET sortedItems == Slice(SortByDayDesc(items), UsedWeeklyCloses)
        newest      == sortedItems[1]
    IN  [securityISIN      |-> newest.securityISIN,
         securityName      |-> newest.securityName,
         instrumentType    |-> newest.instrumentType,
         exchangeName      |-> newest.exchangeName,
         newestWeeklyClose |-> newest.lastDayOfWeek,
         rslValue          |-> Quotient(newest.lastPriceOfWeek * Len(sortedItems),
                                        SumPrices(sortedItems))]

\* Mutant of EnoughWeeklyData: <= instead of <.
EnoughWeeklyDataStrict(items) == ~(Cardinality(items) <= MinWeeklyCloses)

\* A partition is skipped when it has too few items.
EnoughWeeklyData(items) == ~(Cardinality(items) < MinWeeklyCloses)

\* getRSLevyWeekly: partition the rows by (ISIN, exchange name), skip the
\* partitions that are too short, reduce the others.
getRSLevyWeekly(L) ==
    LET queryResult == getRawRSLevyData(L)
        keys        == {<<x.securityISIN, x.exchangeName>> : x \in queryResult}
        itemsOf(k)  == {x \in queryResult :
                          x.securityISIN = k[1] /\ x.exchangeName = k[2]}
    IN  {WeeklyRecord(itemsOf(k)) : k \in {kk \in keys : EnoughWeeklyData(itemsOf(kk))}}

\* getRSLevyData(RSLevyAlgorithm.WEEKLY)
GetRSLevyDataWeekly ==
    /\ resp' = [NoResp EXCEPT !.op = "weekly", !.status = "resolved", !.queried = TRUE,
                              !.levy = getRSLevyWeekly(ledger)]
    /\ UNCHANGED <<ledger, inflight, applied, calls, promises>>

----------------------------------------------------------------------------
(* Specification of the weekly algorithm on weekly price histories *)

\* longest weekly history ingested in one batch
MaxSeriesLen == 28

\* Friday 2023-03-31 and the six days after it: every weekday once.
WeeklyLastDays ==
    {DaysFromCivil(2023, 3, 31) + k : k \in 0..6}

\* n quotes a week apart, the newest on `last`, oldest first.
WeeklySeries(last, n, price) ==
    [i \in 1..n |-> [date |-> last - 7 * (n - i), quote |-> price]]

WeeklyPayloads ==
    {[isin |-> "DE0001", exchange |-> "XETRA",
      quotes |-> WeeklySeries(last, n, 100)] :
        last \in WeeklyLastDays, n \in (MinWeeklyCloses - 1)..MaxSeriesLen}
    \cup {[isin |-> "DE0001", exchange |-> "XETRA",
           quotes |-> <<[date |-> d, quote |-> 135]>>] : d \in WeeklyLastDays}
    \cup {[isin |-> "US0002", exchange |-> "NYSE",
           quotes |-> WeeklySeries(DaysFromCivil(2023, 3, 31), n, 100)] :
            n \in (MinWeeklyCloses - 1)..MinWeeklyCloses}

NextWeekly ==
    \/ \E data \in WeeklyPayloads : Add(data)
    \/ \E data \in UnknownPayloads : AddNotFound(data)
    \/ ExecuteInsert
    \/ GetRSLevyDataWeekly

SpecWeekly == Init /\ [][NextWeekly]_vars

----------------------------------------------------------------------------
(* Claims on the weekly algorithm *)

WeeklyAnswered == resp.op = "weekly" /\ resp.status = "resolved"

\* WEEKDAY numbers the days from Monday = 0.
IsThursday(d) == WEEKDAY(d) = 3
IsFriday(d) == WEEKDAY(d) = 4

\* The most recent Thursday and Friday <= latest.
MostRecentThursday(latest) == CHOOSE d \in (latest - 6)..latest : IsThursday(d)
MostRecentFriday(latest) == CHOOSE d \in (latest - 6)..latest : IsFriday(d)

LatestDate(L, s, e) == MaxOf(DatesOf(L, s, e))

\* The quote dates of the pair at or before the most recent Friday.
DatesUpToFriday(L, s, e) ==
    {d \in DatesOf(L, s, e) : d <= MostRecentFriday(LatestDate(L, s, e))}

\* The anchor rows the query computes for the pair (none or one).
AnchorRows(L, s, e) == {a \in getLatestWeekCloseDate(L) : a.sid = s /\ a.eid = e}

\* C3 as stated: the anchor of every pair is the most recent Thursday <= its
\* latest quote date, the latest quote date itself when that is a Thursday.
C3_AnchorIsThursday ==
    WeeklyAnswered =>
        \A p \in PairsOf(ledger) :
            \E a \in AnchorRows(ledger, p[1], p[2]) :
                a.close_date = MostRecentThursday(LatestDate(ledger, p[1], p[2]))

\* C3 amended: the anchor of a pair is its latest quote date that is <= the
\* most recent Friday <= its latest quote date (no anchor when it has no
\* such quote); it is the latest quote date itself when that is a Friday.
C3_AnchorIsFridayClose ==
    WeeklyAnswered =>
        \A p \in PairsOf(ledger) :
            LET upTo == DatesUpToFriday(ledger, p[1], p[2])
                rows == AnchorRows(ledger, p[1], p[2])
            IN  /\ upTo = {} => rows = {}
                /\ upTo # {} =>
                      rows = {[sid |-> p[1], eid |-> p[2], close_date |-> MaxOf(upTo)]}
                /\ IsFriday(LatestDate(ledger, p[1], p[2])) =>
                      \E a \in rows : a.close_date = LatestDate(ledger, p[1], p[2])

\* Pairs whose latest quote dates fall on a Thursday and on a Friday.
C3_Witness ==
    /\ WeeklyAnswered
    /\ \E p \in PairsOf(ledger) : IsFriday(LatestDate(ledger, p[1], p[2]))
    /\ \E p \in PairsOf(ledger) :
          /\ IsThursday(LatestDate(ledger, p[1], p[2]))
          /\ AnchorRows(ledger, p[1], p[2]) # {}

\* Monday-based week number of a day (1969-12-29 was a Monday).
WeekIndex(d) == (d + 3) \div 7

\* The number of ISO weeks that hold a quote of the pair in the window
\* (anchor - 28 weeks, anchor]: the pair's weekly closes in its window.
ClosesInWindow(L, s, e) ==
    IF DatesUpToFriday(L, s, e) = {} THEN 0
    ELSE LET anchor == MaxOf(DatesUpToFriday(L, s, e))
         IN  Cardinality({WeekIndex(d) : d \in
                 {dd \in DatesOf(L, s, e) :
                     dd <= anchor /\ dd > anchor - 7 * WindowWeeks}})

LevyRecordsOf(records, s, e) ==
    {r \in records : r.securityISIN = IsinOf(s) /\ r.exchangeName = ExchNameOf(e)}

\* C4: the weekly result holds a record (exactly one) for a pair if and only
\* if the pair has at least 27 weekly closes in its window; the other pairs
\* are absent, whatever the other pairs have.
C4_RecordIffEnoughCloses ==
    WeeklyAnswered =>
        \A p \in PairsOf(ledger) :
            Cardinality(LevyRecordsOf(resp.levy, p[1], p[2])) =
                IF ClosesInWindow(ledger, p[1], p[2]) >= 27 THEN 1 ELSE 0

\* One pair with 26 closes is absent, another with 27 is present.
C4_Witness ==
    /\ WeeklyAnswered
    /\ \E p1, p2 \in PairsOf(ledger) :
          /\ ClosesInWindow(ledger, p1[1], p1[2]) = 26
          /\ LevyRecordsOf(resp.levy, p1[1], p1[2]) = {}
          /\ ClosesInWindow(ledger, p2[1], p2[2]) = 27
          /\ LevyRecordsOf(resp.levy, p2[1], p2[2]) # {}

RECURSIVE SumOfPrices(_)
SumOfPrices(items) ==
    IF items = {} THEN 0
    ELSE LET x == CHOOSE y \in items : TRUE
         IN  x.lastPriceOfWeek + SumOfPrices(items \ {x})

\* The weekly closes of a pair, as the query returns them.
WeeklyClosesOf(L, isin, ename) ==
    {x \in getRawRSLevyData(L) : x.securityISIN = isin /\ x.exchangeName = ename}

\* The n closes with the latest dates.
NewestCloses(items, n) ==
    {x \in items :
        Cardinality({y \in items : y.lastDayOfWeek > x.lastDayOfWeek}) < n}

\* C5: every weekly record is computed from exactly the 27 weekly closes of
\* its pair with the latest dates: newestWeeklyClose is the date of the newest
\* of them and rslValue = (its price * 27) / (the sum of the 27 prices).
C5_Newest27Closes ==
    WeeklyAnswered =>
        \A r \in resp.levy :
            LET items  == WeeklyClosesOf(ledger, r.securityISIN, r.exchangeName)
                sel    == NewestCloses(items, 27)
                newest == CHOOSE x \in sel : \A y \in items : y.lastDayOfWeek <= x.lastDayOfWeek
            IN  /\ Cardinality(sel) = 27
                /\ r.newestWeeklyClose = newest.lastDayOfWeek
                /\ r.rslValue.den # 0
                /\ r.rslValue.num * SumOfPrices(sel) =
                       r.rslValue.den * (newest.lastPriceOfWeek * 27)

\* A record of a pair with more than 27 closes, whose oldest close is not in
\* the sum and whose prices differ.
C5_Witness ==
    /\ WeeklyAnswered
    /\ \E r \in resp.levy :
          LET items == WeeklyClosesOf(ledger, r.securityISIN, r.exchangeName)
          IN  /\ Cardinality(items) > 27
              /\ \E x, y \in NewestCloses(items, 27) :
                    x.lastPriceOfWeek # y.lastPriceOfWeek

\* The pair has exactly 28 quotes, a week apart, the newest valued 135 and
\* the 27 older ones 100.
Scenario28Weeks(L, s, e) ==
    /\ DatesOf(L, s, e) # {}
    /\ DatesOf(L, s, e) = {LatestDate(L, s, e) - 7 * i : i \in 0..27}
    /\ \A q \in QuotesOf(L, s, e) :
          q.quote = IF q.date = LatestDate(L, s, e) THEN 135 ELSE 100

\* C6 as stated: in the scenario the weekly record has rslValue
\* (135 * 27) / (100 * 27) = 27/20 = 1.35.
C6_ScenarioValueIs135 ==
    WeeklyAnswered =>
        \A p \in PairsOf(ledger) :
            Scenario28Weeks(ledger, p[1], p[2]) =>
                \E r \in LevyRecordsOf(resp.levy, p[1], p[2]) :
                    r.rslValue = [num |-> 27, den |-> 20]

\* C6 amended: in the scenario, with the closes dated on Fridays, the record
\* has rslValue (135 * 27) / (135 + 26 * 100) = 729/547 and its date is the
\* newest close; on another weekday the newest quote lies after the anchor
\* and the record is computed from the 27 older closes: rslValue 1.
C6_ScenarioValue ==
    WeeklyAnswered =>
        \A p \in PairsOf(ledger) :
            Scenario28Weeks(ledger, p[1], p[2]) =>
                LET latest == LatestDate(ledger, p[1], p[2])
                IN  \E r \in LevyRecordsOf(resp.levy, p[1], p[2]) :
                        IF IsFriday(latest)
                        THEN /\ r.rslValue = [num |-> 729, den |-> 547]
                             /\ r.newestWeeklyClose = latest
                        ELSE /\ r.rslValue = [num |-> 1, den |-> 1]
                             /\ r.newestWeeklyClose = latest - 7

\* The scenario on Fridays, answered.
C6_Witness ==
    /\ WeeklyAnswered
    /\ \E p \in PairsOf(ledger) :
          /\ Scenario28Weeks(ledger, p[1], p[2])
          /\ IsFriday(LatestDate(ledger, p[1], p[2]))
          /\ LevyRecordsOf(resp.levy, p[1], p[2]) # {}

----------------------------------------------------------------------------
(* Claims on the weekly closes *)

\* The quote dates of the pair in the window (anchor - 28 weeks, anchor], the
\* anchor being the pair's latest quote date at or before the most recent
\* Friday.
WindowDates(L, s, e) ==
    IF DatesUpToFriday(L, s, e) = {} THEN {}
    ELSE LET anchor == MaxOf(DatesUpToFriday(L, s, e))
         IN  {d \in DatesOf(L, s, e) : d <= anchor /\ d > anchor - 7 * WindowWeeks}

\* C15: every weekly close that enters a weekly record is a quote of the
\* record's pair dated in the window (anchor - 28 weeks, anchor], the latest
\* of the window's quotes in its ISO week, with that quote's price; no close
\* and no newestWeeklyClose is dated after the anchor, also when the pair has
\* quotes later in the anchor's ISO week.
C15_ClosesWithinWindow ==
    WeeklyAnswered =>
        \A p \in PairsOf(ledger) :
            \A r \in LevyRecordsOf(resp.levy, p[1], p[2]) :
                LET window == WindowDates(ledger, p[1], p[2])
                    used   == NewestCloses(
                                  WeeklyClosesOf(ledger, IsinOf(p[1]), ExchNameOf(p[2])),
                                  UsedWeeklyCloses)
                IN  /\ r.newestWeeklyClose \in window
                    /\ \A x \in used :
                          /\ x.lastDayOfWeek \in window
                          /\ \A d \in window :
                                WeekIndex(d) = WeekIndex(x.lastDayOfWeek)
                                    => d <= x.lastDayOfWeek
                          /\ x.lastPriceOfWeek =
                                PriceAt(ledger, p[1], p[2], x.lastDayOfWeek)

----------------------------------------------------------------------------
(* RSLevyService: the daily algorithm *)

\* HAVING COUNT(*) >= 200
MinDailyQuotes == 200
\* .limit(200)
DailyWindow == 200

\* Mutant of getLatestDate200: HAVING COUNT(*) > 200.
getLatestDateOver200(L) ==
    {[sid |-> p[1], eid |-> p[2], max_date |-> MaxOf(DatesOf(L, p[1], p[2]))] :
        p \in {pp \in PairsOf(L) :
                 Cardinality(QuotesOf(L, pp[1], pp[2])) > MinDailyQuotes}}

\* SELECT q.securityId, q.exchangeId, MAX(q.date) FROM quotes q
\* GROUP BY sid, eid HAVING COUNT(*) >= 200
getLatestDate200(L) ==
    {[sid |-> p[1], eid |-> p[2], max_date |-> MaxOf(DatesOf(L, p[1], p[2]))] :
        p \in {pp \in PairsOf(L) :
                 Cardinality(QuotesOf(L, pp[1], pp[2])) >= MinDailyQuotes}}

\* The rows of the main query: quotes INNER JOIN securities, exchanges and
\* md200 ON the pair WHERE q.date = md200.max_date.
DailyRows(L) ==
    {[sid         |-> j[2].sid,
      isin        |-> IsinOf(j[2].sid),
      sname       |-> SecNameOf(j[2].sid),
      itype       |-> SecTypeOf(j[2].sid),
      eid         |-> j[2].eid,
      ename       |-> ExchNameOf(j[2].eid),
      max_date    |-> j[2].max_date,
      close_price |-> j[1].quote] :
        j \in {jj \in L \X getLatestDate200(L) :
                 /\ jj[1].sid = jj[2].sid /\ jj[1].eid = jj[2].eid
                 /\ jj[1].date = jj[2].max_date}}

\* ORDER BY q.date DESC: the row in place i has i - 1 rows dated after it
\* (the dates of one pair are distinct).
OrderByDateDesc(rows) ==
    LET ranked == {[rank |-> Cardinality({y \in rows : y.qdate > x.qdate}) + 1,
                    row  |-> x] : x \in rows}
    IN  [i \in 1..Cardinality(rows) |-> (CHOOSE r \in ranked : r.rank = i).row]

\* Mutant of getLatest200Rows: LIMIT 199.
getLatest199Rows(L, sid, eid) ==
    LET rows == {[sid |-> q.sid, eid |-> q.eid, qdate |-> q.date, price |-> q.quote] :
                    q \in {qq \in L : qq.sid = sid /\ qq.eid = eid}}
    IN  SubSeq(OrderByDateDesc(rows), 1, Min(DailyWindow - 1, Cardinality(rows)))

\* SELECT q.securityId, q.exchangeId, q.date, q.quote FROM quotes q
\* WHERE q.securityId = :sid AND q.exchangeId = :eid
\* ORDER BY q.date DESC LIMIT 200
getLatest200Rows(L, sid, eid) ==
    LET rows == {[sid |-> q.sid, eid |-> q.eid, qdate |-> q.date, price |-> q.quote] :
                    q \in {qq \in L : qq.sid = sid /\ qq.eid = eid}}
    IN  SubSeq(OrderByDateDesc(rows), 1, Min(DailyWindow, Cardinality(rows)))

\* The sum of the prices of the rows lo..hi of a sequence.
RECURSIVE SumRowPricesIn(_, _, _)
SumRowPricesIn(seq, lo, hi) ==
    IF lo > hi THEN 0
    ELSE IF lo = hi THEN seq[lo].price
    ELSE LET mid == (lo + hi) \div 2
         IN  SumRowPricesIn(seq, lo, mid) + SumRowPricesIn(seq, mid + 1, hi)

SumRowPrices(seq) == SumRowPricesIn(seq, 1, Len(seq))

\* Mutant of Average: the mean is truncated to a whole number.
AverageTruncated(seq) == Quotient(SumRowPrices(seq) \div Len(seq), 1)

\* AVG(lat200.price)
Average(seq) == Quotient(SumRowPrices(seq), Len(seq))

\* The record pushed for one row of the main query:
\* rslValue: Number(close_price / avg.average)
DailyRecord(row, average) ==
    [securityISIN      |-> row.isin,
     securityName      |-> row.sname,
     instrumentType    |-> row.itype,
     exchangeName      |-> row.ename,
     newestWeeklyClose |-> row.max_date,
     rslValue          |-> Quotient(row.close_price * average.den, average.num)]

\* getRSLevyDaily: the main query, then one average query for each row.
getRSLevyDaily(L) ==
    {DailyRecord(row, Average(getLatest200Rows(L, row.sid, row.eid))) :
        row \in DailyRows(L)}

\* getRSLevyData(RSLevyAlgorithm.DAILY)
GetRSLevyDataDaily ==
    /\ resp' = [NoResp EXCEPT !.op = "daily", !.status = "resolved", !.queried = TRUE,
                              !.levy = getRSLevyDaily(ledger)]
    /\ UNCHANGED <<ledger, inflight, applied, calls, promises>>

----------------------------------------------------------------------------
(* Specification of the daily algorithm on daily price histories *)

\* longest daily history ingested in one batch
MaxRunLen == 201

\* 2022-09-01
DailyFirstDay == DaysFromCivil(2022, 9, 1)

\* n quotes on consecutive days from `first`.
DailyRun(first, n, price) ==
    [i \in 1..n |-> [date |-> first + (i - 1), quote |-> price]]

DailyPayloads ==
    {[isin |-> "DE0001", exchange |-> "XETRA",
      quotes |-> DailyRun(DailyFirstDay, n, 50)] :
        n \in (MinDailyQuotes - 1)..MaxRunLen}
    \cup {[isin |-> "DE0001", exchange |-> "XETRA",
           quotes |-> <<[date |-> DailyFirstDay + k, quote |-> 100]>>] :
            k \in {0} \cup ((MinDailyQuotes - 2)..(MaxRunLen - 1))}
    \cup {[isin |-> "US0002", exchange |-> "NYSE",
           quotes |-> DailyRun(DailyFirstDay, n, 60)] :
            n \in (MinDailyQuotes - 1)..MinDailyQuotes}

NextDaily ==
    \/ \E data \in DailyPayloads : Add(data)
    \/ \E data \in UnknownPayloads : AddNotFound(data)
    \/ ExecuteInsert
    \/ GetRSLevyDataDaily

SpecDaily == Init /\ [][NextDaily]_vars

----------------------------------------------------------------------------
(* Claims on the daily algorithm *)

DailyAnswered == resp.op = "daily" /\ resp.status = "resolved"

\* The sum of the prices of the quotes in Q (of one pair) dated lo..hi.
RECURSIVE SumQuotesBetween(_, _, _)
SumQuotesBetween(Q, lo, hi) ==
    IF lo > hi THEN 0
    ELSE IF lo = hi
         THEN (IF \E q \in Q : q.date = lo
               THEN (CHOOSE q \in Q : q.date = lo).quote ELSE 0)
    ELSE LET mid == (lo + hi) \div 2
         IN  SumQuotesBetween(Q, lo, mid) + SumQuotesBetween(Q, mid + 1, hi)

SumQuotes(Q) ==
    IF Q = {} THEN 0
    ELSE SumQuotesBetween(Q, MaxOf({0 - q.date : q \in Q}) * (0 - 1),
                          MaxOf({q.date : q \in Q}))

\* The n quotes of Q with the latest dates.
NewestQuotes(Q, n) ==
    {q \in Q : Cardinality({q2 \in Q : q2.date > q.date}) < n}

\* C7: the daily result holds a record (exactly one) for a pair if and only
\* if the pair has at least 200 quotes; a pair with exactly 200 is present and
\* the mean in its value is over all its 200 quotes.
C7_RecordIffTwoHundredQuotes ==
    DailyAnswered =>
        \A p \in PairsOf(ledger) :
            LET Q    == QuotesOf(ledger, p[1], p[2])
                recs == LevyRecordsOf(resp.levy, p[1], p[2])
            IN  /\ Cardinality(recs) = IF Cardinality(Q) >= 200 THEN 1 ELSE 0
                /\ Cardinality(Q) = 200 =>
                      \A r \in recs :
                          /\ r.rslValue.den # 0
                          /\ r.rslValue.num * SumQuotes(Q) =
                                 r.rslValue.den *
                                 (PriceAt(ledger, p[1], p[2], LatestDate(ledger, p[1], p[2])) * 200)

\* A pair with 199 quotes is absent, another with exactly 200 is present.
C7_Witness ==
    /\ DailyAnswered
    /\ \E p1, p2 \in PairsOf(ledger) :
          /\ Cardinality(QuotesOf(ledger, p1[1], p1[2])) = 199
          /\ LevyRecordsOf(resp.levy, p1[1], p1[2]) = {}
          /\ Cardinality(QuotesOf(ledger, p2[1], p2[2])) = 200
          /\ LevyRecordsOf(resp.levy, p2[1], p2[2]) # {}

\* C8: the date of every daily record is the latest quote date of its pair
\* and rslValue = (the price on that date) / (the mean of the prices of the
\* pair's 200 quotes with the latest dates).
C8_CloseOverMeanOfNewest200 ==
    DailyAnswered =>
        \A r \in resp.levy :
            LET s   == SecurityGetOne(r.securityISIN)
                e   == ExchangeGetOne(r.exchangeName)
                win == NewestQuotes(QuotesOf(ledger, s, e), 200)
            IN  /\ Cardinality(win) = 200
                /\ r.newestWeeklyClose = LatestDate(ledger, s, e)
                /\ r.rslValue.den # 0
                /\ r.rslValue.num * SumQuotes(win) =
                       r.rslValue.den * (PriceAt(ledger, s, e, LatestDate(ledger, s, e)) * 200)

\* A record of a pair with more than 200 quotes whose oldest quote, outside
\* the window, has another price than the newest.
C8_Witness ==
    /\ DailyAnswered
    /\ \E r \in resp.levy :
          LET s == SecurityGetOne(r.securityISIN)
              e == ExchangeGetOne(r.exchangeName)
              Q == QuotesOf(ledger, s, e)
          IN  /\ Cardinality(Q) > 200
              /\ \E q \in Q \ NewestQuotes(Q, 200) :
                    q.quote # PriceAt(ledger, s, e, LatestDate(ledger, s, e))

\* The pair has exactly 200 quotes, the latest valued 100, the others 50.
Scenario200Days(L, s, e) ==
    /\ Cardinality(QuotesOf(L, s, e)) = 200
    /\ \A q \in QuotesOf(L, s, e) :
          q.quote = IF q.date = LatestDate(L, s, e) THEN 100 ELSE 50

\* C9 as stated: in the scenario the mean is 49.75 = 199/4 and the record
\* has rslValue 100 / 49.75 = 400/199.
C9_ScenarioValueAsStated ==
    DailyAnswered =>
        \A p \in PairsOf(ledger) :
            Scenario200Days(ledger, p[1], p[2]) =>
                /\ Average(getLatest200Rows(ledger, p[1], p[2])) = [num |-> 199, den |-> 4]
                /\ \E r \in LevyRecordsOf(resp.levy, p[1], p[2]) :
                      r.rslValue = [num |-> 400, den |-> 199]

\* C9 amended: in the scenario the mean is (199 * 50 + 100) / 200 = 50.25 =
\* 201/4 and the record has rslValue 100 / 50.25 = 400/201.
C9_ScenarioValue ==
    DailyAnswered =>
        \A p \in PairsOf(ledger) :
            Scenario200Days(ledger, p[1], p[2]) =>
                /\ Average(getLatest200Rows(ledger, p[1], p[2])) = [num |-> 201, den |-> 4]
                /\ \E r \in LevyRecordsOf(resp.levy, p[1], p[2]) :
                      r.rslValue = [num |-> 400, den |-> 201]

\* The scenario, answered.
C9_Witness ==
    /\ DailyAnswered
    /\ \E p \in PairsOf(ledger) :
          /\ Scenario200Days(ledger, p[1], p[2])
          /\ LevyRecordsOf(resp.levy, p[1], p[2]) # {}

====
